---- MODULE Spec2Model ----
(***************************************************************************)
(* Model of the ptrace tracer (lttng_ptrace_tracer.c): main, the SIGINT /  *)
(* SIGTERM handler that may interrupt it between any two statements,       *)
(* inject_tracepoint_calls, cleanup_injection, simulate_injected_          *)
(* tracepoints and find_symbol_address, together with the traced target    *)
(* process as the kernel presents it to the tracer (ptrace stops, waitpid  *)
(* reports, /proc/<pid>/maps, the text word at the function address).      *)
(* Two further programs of the repository are modelled as specifications   *)
(* of their own: the eBPF collector (ebpf_tracer/mylib_tracer.c with the    *)
(* probes of mylib_tracer.bpf.c) and the LD_PRELOAD wrapper                 *)
(* (lttng_tracer/mylib_wrapper.c).                                          *)
(***************************************************************************)
EXTENDS Integers, Sequences, FiniteSets, TLC

\* ------------------------------------------------------------------ bounds
\* Number of calls of my_traced_function the target may make in a session.
MaxCalls == 1

\* ------------------------------------------------------- program constants
\* for (attempt = 0; attempt < 10; attempt++)
PollAttempts == 10
\* simulate_injected_tracepoints(target_pid, 10)
SimulatedCalls == 10
\* tracepoint(..., 42 + i, ...)
FirstArgBase == 42
\* malloc(8) / memcpy(..., 8) / code_size = 8
SavedCodeSize == 8
\* the x86 software breakpoint instruction (int3) the specification speaks of
TrapOpcode == 204
Signals == {"SIGINT", "SIGTERM"}

\* ------------------------------------------------------------ target image
\* 8-byte text words found at the start of a function, lowest byte first:
\* push %rbp; mov %rsp,%rbp; ...   /   int3; mov %rsp,%rbp; ...
Words ==
  { <<85, 72, 137, 229, 72, 131, 236, 32>>,
    <<204, 72, 137, 229, 72, 131, 236, 32>> }

\* the word of every other mapped address (padding)
Filler == <<144, 144, 144, 144, 144, 144, 144, 144>>

\* One line of /proc/<pid>/maps: start address, permissions, whether the
\* path names libmylib.so.
MapLine(s, p, l) == [start |-> s, perms |-> p, lib |-> l]

\* Layouts of the target once the dynamic loader has mapped libmylib.so:
\* an old-style layout whose first library mapping is the text segment, and
\* a layout with a read-only ELF header mapping below the text segment.
PlainLayout ==
  << MapLine(1, "r-xp", FALSE), MapLine(4, "r-xp", TRUE), MapLine(6, "rw-p", TRUE) >>

HeaderLayout ==
  << MapLine(1, "r-xp", FALSE), MapLine(3, "r--p", TRUE), MapLine(4, "r-xp", TRUE),
     MapLine(6, "rw-p", TRUE) >>

\* the images of a target that loads the library: its mappings and the text
\* word at my_traced_function
Images ==
  { [layout |-> PlainLayout, word |-> w] : w \in Words }
  \cup { [layout |-> HeaderLayout, word |-> <<85, 72, 137, 229, 72, 131, 236, 32>>] }

\* maps of the target before libmylib.so is loaded
MapsNoLib == << MapLine(1, "r-xp", FALSE) >>

Addrs == 0..8

\* ------------------------------------------------------------------- state
VARIABLES
  env,                  \* the run's inputs: argv, the target and its library
  stack,                \* control stack: main's frame, then handler frames
  target_pid,           \* static pid_t target_pid
  target_function_addr, \* static unsigned long target_function_addr
  injection,            \* static struct code_injection injection
  heap,                 \* the malloc(8) block: "none", "live" or "freed"
  buf,                  \* content of the malloc(8) block
  attempt,              \* main: int attempt
  status,               \* main: int status (last waitpid report)
  orig_instr,           \* inject_tracepoint_calls: long orig_instr
  simi,                 \* simulate_injected_tracepoints: int i
  events,               \* tracepoints fired, in order
  target,               \* the traced process as the kernel sees it
  mem,                  \* text of the target: address -> word
  detachCalls,          \* number of ptrace(PTRACE_DETACH) calls issued
  detachLog,            \* for each PTRACE_DETACH issued: who, injection.active
  exitCode,             \* exit status of the tracer, -1 while it runs
  exitVia,              \* "none", "main", "handler" or "abort"
  hist,                 \* what has happened in the session so far
  collector,            \* the eBPF collector process (mylib_tracer.c)
  wrapper               \* a process with the LD_PRELOAD wrapper (mylib_wrapper.c)

vars == << env, stack, target_pid, target_function_addr, injection, heap, buf,
           attempt, status, orig_instr, simi, events, target, mem,
           detachCalls, detachLog, exitCode, exitVia, hist, collector, wrapper >>

\* the variables of the ptrace tracer and its target
ptraceVars == << env, stack, target_pid, target_function_addr, injection, heap, buf,
                 attempt, status, orig_instr, simi, events, target, mem,
                 detachCalls, detachLog, exitCode, exitVia, hist >>

\* a program that is not part of the run
NotRunning == [pc |-> "off"]

\* variables of the tracer's own memory other than the control stack
tracerData == << target_pid, target_function_addr, injection, heap, buf,
                 attempt, status, orig_instr, simi, events >>

\* ------------------------------------------------------------------ inputs
\* argv[1] is missing ("usage"), a pid ("attach") or a path ("spawn");
\* alive: the pid exists / the path can be exec'ed; loads: the target maps
\* libmylib.so at some point; dlOk: the tracer itself can dlopen the library
\* and dlsym the symbol; layout, word: the target's mappings and the text
\* word at the function.
Inputs ==
  { [mode |-> "usage", alive |-> FALSE, loads |-> FALSE, dlOk |-> FALSE,
     layout |-> MapsNoLib, word |-> Filler] }
  \cup
  { [mode |-> m, alive |-> FALSE, loads |-> FALSE, dlOk |-> FALSE,
     layout |-> MapsNoLib, word |-> Filler] : m \in {"attach", "spawn"} }
  \cup
  { [mode |-> m, alive |-> TRUE, loads |-> FALSE, dlOk |-> FALSE,
     layout |-> MapsNoLib, word |-> Filler] : m \in {"attach", "spawn"} }
  \cup
  { [mode |-> m, alive |-> TRUE, loads |-> TRUE, dlOk |-> FALSE,
     layout |-> PlainLayout, word |-> Filler] : m \in {"attach", "spawn"} }
  \cup
  { [mode |-> m, alive |-> TRUE, loads |-> TRUE, dlOk |-> TRUE,
     layout |-> im.layout, word |-> im.word] :
       m \in {"attach", "spawn"}, im \in Images }

\* the pid given on the command line / returned by fork
ThePid == 7

\* offset of my_traced_function from the library's load base (dli_fbase)
SymbolOffset == 1

\* lowest address at which the library is mapped in a layout
RECURSIVE FirstLib(_, _)
FirstLib(maps, k) ==
  IF k > Len(maps) THEN 0
  ELSE IF maps[k].lib THEN maps[k].start
  ELSE FirstLib(maps, k + 1)

\* where my_traced_function really is in the target
TrueFunctionAddr(in) == FirstLib(in.layout, 1) + SymbolOffset

InitialMem(in) ==
  [a \in Addrs |-> IF in.loads /\ a = TrueFunctionAddr(in) THEN in.word ELSE Filler]

NoInjection == [addr |-> 0, orig_code |-> "NULL", code_size |-> 0, active |-> 0]

MainFrame(l) == [pc |-> l, ret |-> "none"]

InitialTarget(in) ==
  [st |-> IF in.mode = "attach" /\ in.alive THEN "running" ELSE "none",
   traced |-> FALSE, report |-> FALSE, sigstop |-> FALSE, loaded |-> FALSE,
   how |-> "none", calls |-> 0]

InitialHist ==
  [handlers |-> FALSE, attached |-> FALSE, failure |-> "none", lookups |-> 0,
   signalled |-> FALSE, installed |-> FALSE, removed |-> FALSE,
   resumed |-> FALSE, frees |-> 0, uaf |-> FALSE, ops |-> {}, symfail |-> "never"]

Init ==
  /\ env \in Inputs
  /\ stack = << MainFrame("start") >>
  /\ target_pid = 0
  /\ target_function_addr = 0
  /\ injection = NoInjection
  /\ heap = "none"
  /\ buf = << >>
  /\ attempt = 0
  /\ status = "unset"
  /\ orig_instr = << >>
  /\ simi = 0
  /\ events = << >>
  /\ target = InitialTarget(env)
  /\ mem = InitialMem(env)
  /\ detachCalls = 0
  /\ detachLog = << >>
  /\ exitCode = -1
  /\ exitVia = "none"
  /\ hist = InitialHist
  /\ collector = NotRunning
  /\ wrapper = NotRunning

\* ------------------------------------------------ the kernel's side of ptrace
\* a ptrace request on the target succeeds only in a ptrace-stop of a tracee
PtraceOk(t) == t.traced /\ t.st = "stopped"

\* ptrace(PTRACE_ATTACH): the process becomes a tracee and is sent SIGSTOP
PtraceAttach(t) == [t EXCEPT !.traced = TRUE, !.sigstop = TRUE]

\* ptrace(PTRACE_CONT, pid, 0, 0)
PtraceCont(t) ==
  IF PtraceOk(t) THEN [t EXCEPT !.st = "running", !.report = FALSE] ELSE t

\* ptrace(PTRACE_DETACH, pid, 0, 0)
PtraceDetach(t) ==
  IF PtraceOk(t)
  THEN [t EXCEPT !.st = "running", !.traced = FALSE, !.report = FALSE]
  ELSE t

\* kill(pid, SIGSTOP): pending until a running target takes it
KillStop(t) ==
  IF t.st \in {"forked", "running", "stopped"} THEN [t EXCEPT !.sigstop = TRUE] ELSE t

\* waitpid(pid, &status, 0) returns: a report is pending, or there is nothing
\* to wait for (no such child or tracee: it fails with ECHILD at once)
WaitReturns(t, in) ==
  \/ t.report
  \/ t.st \in {"none", "reaped"}
  \/ in.mode = "attach" /\ ~t.traced

\* the target after waitpid has returned
WaitTarget(t) ==
  IF ~t.report THEN t
  ELSE IF t.st = "zombie"
       THEN [t EXCEPT !.st = "reaped", !.report = FALSE, !.traced = FALSE]
       ELSE [t EXCEPT !.report = FALSE]

\* the status waitpid stores (left as it was when waitpid fails)
WaitStatus(t, old) ==
  IF ~t.report THEN old
  ELSE IF t.st = "zombie" THEN t.how ELSE "stopped"

\* the tracer's death releases its tracee
OnTracerExit(t) ==
  IF t.traced
  THEN [t EXCEPT !.traced = FALSE,
                 !.st = IF t.st = "stopped" THEN "running" ELSE t.st,
                 !.report = IF t.st = "stopped" THEN FALSE ELSE t.report]
  ELSE t

\* what fopen("/proc/<pid>/maps") and the fgets loop read
ReadMaps(t, in) ==
  IF t.st \in {"running", "stopped"}
  THEN (IF t.loaded THEN in.layout ELSE MapsNoLib)
  ELSE << >>

\* ------------------------------------------------------ find_symbol_address
\* while (fgets(...)) if (strstr(line, "libmylib.so") && strstr(line, "r-xp"))
\*   { sscanf(line, "%lx", &base_addr); break; }
RECURSIVE ScanMaps(_, _)
ScanMaps(maps, k) ==
  IF k > Len(maps) THEN 0
  ELSE IF maps[k].lib /\ maps[k].perms = "r-xp" THEN maps[k].start
  ELSE ScanMaps(maps, k + 1)

\* the lookup finds the module in the maps and fails on dlopen/dlsym/dladdr
SymbolLookupFails(maps, dlOk) == ScanMaps(maps, 1) # 0 /\ ~dlOk

\* how often that has happened in the session: "never", "once", "again"
CountSymbolFailure(n, maps, dlOk) ==
  IF ~SymbolLookupFails(maps, dlOk) THEN n
  ELSE IF n = "never" THEN "once" ELSE "again"

find_symbol_address(maps, dlOk) ==
  LET base_addr == ScanMaps(maps, 1)
  IN  IF base_addr = 0 THEN 0
      ELSE IF ~dlOk THEN 0
      ELSE base_addr + SymbolOffset

\* ------------------------------------------------------------ control stack
Top == stack[Len(stack)]

At(l) == exitVia = "none" /\ Top.pc = l

InMain == Len(stack) = 1

Goto(l) == stack' = [stack EXCEPT ![Len(stack)].pc = l]

\* cleanup_entry without the test of injection.active
cleanup_entry_unguarded(r) ==
  IF injection.orig_code = "NULL" THEN "cl_clear" ELSE "cl_free"

\* cleanup_injection up to its first write, to come back at r:
\*   if (!injection.active) return 0; ... if (injection.orig_code) {
\*   memcpy(&orig_data, injection.orig_code, sizeof(long)); printf(...);
\* (orig_data is printed; nothing is written to the target)
cleanup_entry(r) ==
  IF injection.active = 0 THEN r
  ELSE IF injection.orig_code = "NULL" THEN "cl_clear"
  ELSE "cl_free"

\* the memcpy above reads the block after it was freed
ReadsFreed == injection.active # 0 /\ injection.orig_code # "NULL" /\ heap # "live"

\* the frame on top calls cleanup_injection
CallCleanup(r) ==
  stack' = [stack EXCEPT ![Len(stack)].pc = cleanup_entry(r), ![Len(stack)].ret = r]

\* the process ends with the given status
Terminate(code, via) ==
  /\ exitCode' = code
  /\ exitVia' = via
  /\ target' = OnTracerExit(target)
  /\ UNCHANGED << collector, wrapper >>

\* the process goes on (the other programs are processes of their own)
Alive == UNCHANGED << exitCode, exitVia, collector, wrapper >>

\* issue ptrace(PTRACE_DETACH, target_pid, 0, 0)
IssueDetach(who) ==
  /\ detachCalls' = detachCalls + 1
  /\ detachLog' = Append(detachLog, [by |-> who, active |-> injection.active,
                                     ok |-> PtraceOk(target)])
  /\ target' = PtraceDetach(target)

NoDetach == UNCHANGED << detachCalls, detachLog >>

\* record in the session history
Note(f, v) == hist' = [hist EXCEPT ![f] = v]

\* record a ptrace/kill/proc operation issued against target_pid
NoteOp(op) == hist' = [hist EXCEPT !.ops = @ \cup {op}]

\* memcpy(dst, src, n): the first n bytes of src
Memcpy(src, n) == SubSeq(src, 1, n)

\* ------------------------------------------------------------- main: set-up
\* if (argc < 2) { usage(argv[0]); return 1; }
Main_Start ==
  /\ At("start") /\ InMain
  /\ IF env.mode = "usage"
     THEN Goto("return1") /\ Note("failure", "usage")
     ELSE Goto("signal") /\ UNCHANGED hist
  /\ UNCHANGED << env, tracerData, target, mem >> /\ NoDetach /\ Alive

\* signal(SIGINT, signal_handler); signal(SIGTERM, signal_handler);
Main_InstallHandlers ==
  /\ At("signal") /\ InMain
  /\ Goto("parse")
  /\ Note("handlers", TRUE)
  /\ UNCHANGED << env, tracerData, target, mem >> /\ NoDetach /\ Alive

\* pid_arg = strtol(argv[1], ...); if (*endptr == '\0' && pid_arg > 0)
\*   target_pid = (pid_t)pid_arg;
Main_ParseArg ==
  /\ At("parse") /\ InMain
  /\ IF env.mode = "attach"
     THEN target_pid' = ThePid /\ Goto("attach")
     ELSE target_pid' = target_pid /\ Goto("fork")
  /\ UNCHANGED << env, target_function_addr, injection, heap, buf, attempt, status,
                  orig_instr, simi, events, target, mem, hist >>
  /\ NoDetach /\ Alive

\* if (ptrace(PTRACE_ATTACH, target_pid, 0, 0) == -1) { perror; return 1; }
Main_Attach ==
  /\ At("attach") /\ InMain
  /\ IF target.st = "running"
     THEN /\ target' = PtraceAttach(target)
          /\ hist' = [hist EXCEPT !.attached = TRUE, !.ops = @ \cup {"attach"}]
          /\ Goto("attach_wait")
     ELSE /\ target' = target
          /\ hist' = [hist EXCEPT !.failure = "attach", !.ops = @ \cup {"attach"}]
          /\ Goto("return1")
  /\ UNCHANGED << env, tracerData, mem >> /\ NoDetach /\ Alive

\* waitpid(target_pid, &status, 0);  (attach branch)
Main_AttachWait ==
  /\ At("attach_wait") /\ InMain
  /\ WaitReturns(target, env)
  /\ status' = WaitStatus(target, status)
  /\ target' = WaitTarget(target)
  /\ Goto("setopts")
  /\ UNCHANGED << env, target_pid, target_function_addr, injection, heap, buf,
                  attempt, orig_instr, simi, events, mem, hist >>
  /\ NoDetach /\ Alive

\* target_pid = fork(); ... else { perror("fork"); return 1; }
Main_Fork ==
  /\ At("fork") /\ InMain
  /\ \/ /\ target_pid' = -1
        /\ target' = target
        /\ Note("failure", "fork")
        /\ Goto("return1")
     \/ /\ target_pid' = ThePid
        /\ target' = [target EXCEPT !.st = "forked"]
        /\ UNCHANGED hist
        /\ Goto("spawn_wait")
  /\ UNCHANGED << env, target_function_addr, injection, heap, buf, attempt, status,
                  orig_instr, simi, events, mem >>
  /\ NoDetach /\ Alive

\* the child: ptrace(PTRACE_TRACEME); execv(argv[1], &argv[1]); perror; return 1;
Child_Exec ==
  /\ exitVia = "none"
  /\ target.st = "forked"
  /\ target' = IF env.alive
               THEN [target EXCEPT !.st = "stopped", !.traced = TRUE, !.report = TRUE]
               ELSE [target EXCEPT !.st = "zombie", !.how = "exited", !.report = TRUE]
  /\ UNCHANGED << env, stack, tracerData, mem, hist >> /\ NoDetach /\ Alive

\* waitpid(target_pid, &status, 0);  (spawn branch; the status is not looked at)
Main_SpawnWait ==
  /\ At("spawn_wait") /\ InMain
  /\ WaitReturns(target, env)
  /\ status' = WaitStatus(target, status)
  /\ target' = WaitTarget(target)
  /\ Note("attached", status' = "stopped")
  /\ Goto("setopts")
  /\ UNCHANGED << env, target_pid, target_function_addr, injection, heap, buf,
                  attempt, orig_instr, simi, events, mem >>
  /\ NoDetach /\ Alive

\* ptrace(PTRACE_SETOPTIONS, target_pid, 0, PTRACE_O_TRACEEXEC | PTRACE_O_TRACECLONE);
Main_SetOptions ==
  /\ At("setopts") /\ InMain
  /\ NoteOp("setoptions")
  /\ Goto("cont0")
  /\ UNCHANGED << env, tracerData, target, mem >> /\ NoDetach /\ Alive

\* for (...; attempt < 10; ...): where the polling loop goes for counter a
LoopNext(a) == IF a < PollAttempts THEN "kill" ELSE "kill2"

\* ptrace(PTRACE_CONT, target_pid, 0, 0);   (and attempt = 0, attempt < 10)
Main_Cont0 ==
  /\ At("cont0") /\ InMain
  /\ target' = PtraceCont(target)
  /\ NoteOp("cont")
  /\ Goto(LoopNext(attempt))
  /\ UNCHANGED << env, tracerData, mem >> /\ NoDetach /\ Alive

\* ------------------------------------------------- main: resolution polling
\* Main_Kill without the SIGSTOP
Main_KillNothing ==
  /\ At("kill") /\ InMain
  /\ target' = target
  /\ NoteOp("kill")
  /\ Goto("wait")
  /\ UNCHANGED << env, tracerData, mem >> /\ NoDetach /\ Alive

\* usleep(50000); kill(target_pid, SIGSTOP);
Main_Kill ==
  /\ At("kill") /\ InMain
  /\ target' = KillStop(target)
  /\ NoteOp("kill")
  /\ Goto("wait")
  /\ UNCHANGED << env, tracerData, mem >> /\ NoDetach /\ Alive

\* Main_Wait that does not block (as with WNOHANG) when nothing is reported
Main_WaitNoHang ==
  /\ At("wait") /\ InMain
  /\ status' = WaitStatus(target, status)
  /\ target' = WaitTarget(target)
  /\ Goto("find")
  /\ UNCHANGED << env, target_pid, target_function_addr, injection, heap, buf,
                  attempt, orig_instr, simi, events, mem, hist >>
  /\ NoDetach /\ Alive

\* waitpid(target_pid, &status, 0);
Main_Wait ==
  /\ At("wait") /\ InMain
  /\ WaitReturns(target, env)
  /\ status' = WaitStatus(target, status)
  /\ target' = WaitTarget(target)
  /\ Goto("find")
  /\ UNCHANGED << env, target_pid, target_function_addr, injection, heap, buf,
                  attempt, orig_instr, simi, events, mem, hist >>
  /\ NoDetach /\ Alive

\* target_function_addr = find_symbol_address(target_pid, "my_traced_function");
\* if (target_function_addr) break;   (then lines 330, 339 and 343 fall through)
Main_Find ==
  /\ At("find") /\ InMain
  /\ target_function_addr' = find_symbol_address(ReadMaps(target, env), env.dlOk)
  /\ hist' = [hist EXCEPT !.lookups = @ + 1, !.ops = @ \cup {"maps"},
                          !.symfail = CountSymbolFailure(@, ReadMaps(target, env), env.dlOk)]
  /\ IF target_function_addr' # 0 THEN Goto("peek") ELSE Goto("cont")
  /\ UNCHANGED << env, target_pid, injection, heap, buf, attempt, status,
                  orig_instr, simi, events, target, mem >>
  /\ NoDetach /\ Alive

\* ptrace(PTRACE_CONT, target_pid, 0, 0); }   (and attempt++, attempt < 10,
\* if (!target_function_addr) { usleep(500000); ...)
Main_Cont ==
  /\ At("cont") /\ InMain
  /\ target' = PtraceCont(target)
  /\ attempt' = attempt + 1
  /\ NoteOp("cont")
  /\ Goto(LoopNext(attempt + 1))
  /\ UNCHANGED << env, target_pid, target_function_addr, injection, heap, buf,
                  status, orig_instr, simi, events, mem >>
  /\ NoDetach /\ Alive

\* ... kill(target_pid, SIGSTOP);
Main_Kill2 ==
  /\ At("kill2") /\ InMain
  /\ target' = KillStop(target)
  /\ NoteOp("kill")
  /\ Goto("wait2")
  /\ UNCHANGED << env, tracerData, mem >> /\ NoDetach /\ Alive

\* ... waitpid(target_pid, &status, 0); }
Main_Wait2 ==
  /\ At("wait2") /\ InMain
  /\ WaitReturns(target, env)
  /\ status' = WaitStatus(target, status)
  /\ target' = WaitTarget(target)
  /\ Goto("find2")
  /\ UNCHANGED << env, target_pid, target_function_addr, injection, heap, buf,
                  attempt, orig_instr, simi, events, mem, hist >>
  /\ NoDetach /\ Alive

\* if (!target_function_addr) target_function_addr = find_symbol_address(...);
\* if (!target_function_addr) { fprintf(stderr, "Could not find ...
Main_Find2 ==
  /\ At("find2") /\ InMain
  /\ target_function_addr' = find_symbol_address(ReadMaps(target, env), env.dlOk)
  /\ IF target_function_addr' # 0
     THEN /\ Goto("peek")
          /\ hist' = [hist EXCEPT !.lookups = @ + 1, !.ops = @ \cup {"maps"}]
     ELSE /\ Goto("resolve_detach")
          /\ hist' = [hist EXCEPT !.lookups = @ + 1, !.ops = @ \cup {"maps"},
                                  !.failure = "resolve",
                                  !.symfail = CountSymbolFailure(@, ReadMaps(target, env),
                                                                 env.dlOk)]
  /\ UNCHANGED << env, target_pid, injection, heap, buf, attempt, status,
                  orig_instr, simi, events, target, mem >>
  /\ NoDetach /\ Alive

\* ... ptrace(PTRACE_DETACH, target_pid, 0, 0); return 1; }
Main_ResolveFailDetach ==
  /\ At("resolve_detach") /\ InMain
  /\ IssueDetach("main")
  /\ Goto("return1")
  /\ UNCHANGED << env, tracerData, mem, hist >> /\ Alive

\* -------------------------------------------------- inject_tracepoint_calls
\* errno = 0; orig_instr = ptrace(PTRACE_PEEKTEXT, pid, function_addr, 0);
\* if (errno != 0) { perror; return -1; }   (main then takes line 353)
Inject_Peek ==
  /\ At("peek") /\ InMain
  /\ IF PtraceOk(target) /\ target_function_addr \in Addrs
     THEN /\ orig_instr' = mem[target_function_addr]
          /\ Goto("save_addr")
          /\ NoteOp("peek")
     ELSE /\ orig_instr' = orig_instr
          /\ Goto("inject_detach")
          /\ hist' = [hist EXCEPT !.failure = "patch", !.ops = @ \cup {"peek"}]
  /\ UNCHANGED << env, target_pid, target_function_addr, injection, heap, buf,
                  attempt, status, simi, events, target, mem >>
  /\ NoDetach /\ Alive

\* injection.addr = function_addr;
Inject_SaveAddr ==
  /\ At("save_addr") /\ InMain
  /\ injection' = [injection EXCEPT !.addr = target_function_addr]
  /\ Goto("malloc")
  /\ UNCHANGED << env, target_pid, target_function_addr, heap, buf, attempt, status,
                  orig_instr, simi, events, target, mem, hist >>
  /\ NoDetach /\ Alive

\* injection.orig_code = malloc(8); if (!injection.orig_code) { perror; return -1; }
Inject_Malloc ==
  /\ At("malloc") /\ InMain
  /\ \/ /\ injection' = [injection EXCEPT !.orig_code = "NULL"]
        /\ UNCHANGED << heap, buf >>
        /\ Note("failure", "patch")
        /\ Goto("inject_detach")
     \/ /\ injection' = [injection EXCEPT !.orig_code = "block"]
        /\ heap' = "live"
        /\ buf' = << >>
        /\ UNCHANGED hist
        /\ Goto("memcpy")
  /\ UNCHANGED << env, target_pid, target_function_addr, attempt, status, orig_instr,
                  simi, events, target, mem >>
  /\ NoDetach /\ Alive

\* memcpy(injection.orig_code, &orig_instr, 8); injection.code_size = 8;
Inject_Memcpy ==
  /\ At("memcpy") /\ InMain
  /\ buf' = Memcpy(orig_instr, SavedCodeSize)
  /\ injection' = [injection EXCEPT !.code_size = SavedCodeSize]
  /\ Goto("activate")
  /\ UNCHANGED << env, target_pid, target_function_addr, heap, attempt, status,
                  orig_instr, simi, events, target, mem, hist >>
  /\ NoDetach /\ Alive

\* Inject_Activate with the breakpoint of the specification written into
\* the target: the low byte of the word at injection.addr becomes the trap
Inject_ActivatePoke ==
  /\ At("activate") /\ InMain
  /\ injection' = [injection EXCEPT !.active = 1]
  /\ mem' = [mem EXCEPT ![injection.addr] = << TrapOpcode >> \o Tail(@)]
  /\ Note("installed", TRUE)
  /\ Goto("cont_final")
  /\ UNCHANGED << env, target_pid, target_function_addr, heap, buf, attempt, status,
                  orig_instr, simi, events, target >>
  /\ NoDetach /\ Alive

\* injection.active = 1; ... return 0;   (the target's text is not written)
Inject_Activate ==
  /\ At("activate") /\ InMain
  /\ injection' = [injection EXCEPT !.active = 1]
  /\ mem' = mem
  /\ Note("installed", TRUE)
  /\ Goto("cont_final")
  /\ UNCHANGED << env, target_pid, target_function_addr, heap, buf, attempt, status,
                  orig_instr, simi, events, target >>
  /\ NoDetach /\ Alive

\* if (inject_tracepoint_calls(...) != 0) {
\*   ptrace(PTRACE_DETACH, target_pid, 0, 0); return 1; }
Main_InjectFailDetach ==
  /\ At("inject_detach") /\ InMain
  /\ IssueDetach("main")
  /\ Goto("return1")
  /\ UNCHANGED << env, tracerData, mem, hist >> /\ Alive

\* ------------------------------------------------------- main: the session
\* for (int i = 0; i < call_count; i++): where the loop goes for index i
SimNext(i) == IF i < SimulatedCalls THEN "sim_entry" ELSE "final_wait"

\* Main_ContFinal that does not test the result of PTRACE_CONT
Main_ContFinalUnchecked ==
  /\ At("cont_final") /\ InMain
  /\ target' = PtraceCont(target)
  /\ hist' = [hist EXCEPT !.resumed = PtraceOk(target), !.ops = @ \cup {"cont"},
                          !.failure = IF PtraceOk(target) THEN @ ELSE "resume"]
  /\ simi' = 0
  /\ Goto(SimNext(0))
  /\ UNCHANGED << env, target_pid, target_function_addr, injection, heap, buf,
                  attempt, status, orig_instr, events, mem >>
  /\ NoDetach /\ Alive

\* if (ptrace(PTRACE_CONT, target_pid, 0, 0) == -1) { perror;
\*   cleanup_injection(target_pid); ... }   sleep(1);
\* simulate_injected_tracepoints(target_pid, 10): int i = 0; i < call_count
Main_ContFinal ==
  /\ At("cont_final") /\ InMain
  /\ IF PtraceOk(target)
     THEN /\ target' = PtraceCont(target)
          /\ hist' = [hist EXCEPT !.resumed = TRUE, !.ops = @ \cup {"cont"}]
          /\ simi' = 0
          /\ Goto(SimNext(0))
     ELSE /\ target' = target
          /\ hist' = [hist EXCEPT !.failure = "resume", !.ops = @ \cup {"cont"},
                                  !.uaf = @ \/ ReadsFreed]
          /\ simi' = simi
          /\ CallCleanup("contfail_detach")
  /\ UNCHANGED << env, target_pid, target_function_addr, injection, heap, buf,
                  attempt, status, orig_instr, events, mem >>
  /\ NoDetach /\ Alive

\* ... ptrace(PTRACE_DETACH, target_pid, 0, 0); return 1;
Main_ContFailDetach ==
  /\ At("contfail_detach") /\ InMain
  /\ IssueDetach("main")
  /\ Goto("return1")
  /\ UNCHANGED << env, tracerData, mem, hist >> /\ Alive

\* The entry event of simulated call i. Of the four arguments the model
\* keeps arg1 (42 + i) and arg4 (0x12345678 + i).
EntryEvent(i) ==
  [kind |-> "entry", args |-> << FirstArgBase + i, 305419896 + i >>]

\* TP_ARGS(void), TP_FIELDS()
ExitEvent == [kind |-> "exit", args |-> << >>]

\* tracepoint(mylib, my_traced_function_entry, 42 + i, 0xDEADBEEF + i, ...);
Sim_Entry ==
  /\ At("sim_entry") /\ InMain
  /\ events' = Append(events, EntryEvent(simi))
  /\ Goto("sim_exit")
  /\ UNCHANGED << env, target_pid, target_function_addr, injection, heap, buf,
                  attempt, status, orig_instr, simi, target, mem, hist >>
  /\ NoDetach /\ Alive

\* Sim_Exit firing the entry tracepoint a second time in place of the exit
Sim_ExitAsEntry ==
  /\ At("sim_exit") /\ InMain
  /\ events' = Append(events, EntryEvent(simi))
  /\ simi' = simi + 1
  /\ Goto(SimNext(simi + 1))
  /\ UNCHANGED << env, target_pid, target_function_addr, injection, heap, buf,
                  attempt, status, orig_instr, target, mem, hist >>
  /\ NoDetach /\ Alive

\* tracepoint(mylib, my_traced_function_exit); }   (and i++, i < call_count)
Sim_Exit ==
  /\ At("sim_exit") /\ InMain
  /\ events' = Append(events, ExitEvent)
  /\ simi' = simi + 1
  /\ Goto(SimNext(simi + 1))
  /\ UNCHANGED << env, target_pid, target_function_addr, injection, heap, buf,
                  attempt, status, orig_instr, target, mem, hist >>
  /\ NoDetach /\ Alive

\* waitpid(target_pid, &status, 0); ... cleanup_injection(target_pid);
Main_FinalWait ==
  /\ At("final_wait") /\ InMain
  /\ WaitReturns(target, env)
  /\ status' = WaitStatus(target, status)
  /\ target' = WaitTarget(target)
  /\ CallCleanup("final_detach")
  /\ Note("uaf", hist.uaf \/ ReadsFreed)
  /\ UNCHANGED << env, target_pid, target_function_addr, injection, heap, buf,
                  attempt, orig_instr, simi, events, mem >>
  /\ NoDetach /\ Alive

\* ptrace(PTRACE_DETACH, target_pid, 0, 0);
Main_FinalDetach ==
  /\ At("final_detach") /\ InMain
  /\ IssueDetach("main")
  /\ Goto("return0")
  /\ UNCHANGED << env, tracerData, mem, hist >> /\ Alive

\* return 1;
Main_Return1 ==
  /\ At("return1") /\ InMain
  /\ Terminate(1, "main")
  /\ UNCHANGED << env, stack, tracerData, mem, hist >> /\ NoDetach

\* return 0;
Main_Return0 ==
  /\ At("return0") /\ InMain
  /\ Terminate(0, "main")
  /\ UNCHANGED << env, stack, tracerData, mem, hist >> /\ NoDetach

\* -------------------------------------------------------- cleanup_injection
\* free(injection.orig_code);   a second free of the block is undefined:
\* the allocator lets it pass or aborts the process (SIGABRT, status 134)
Cl_Free ==
  /\ At("cl_free")
  /\ Note("frees", hist.frees + 1)
  /\ \/ /\ heap = "live"
        /\ heap' = "freed"
        /\ Goto("cl_null")
        /\ UNCHANGED target /\ Alive
     \/ /\ heap # "live"
        /\ heap' = heap
        /\ Goto("cl_null")
        /\ UNCHANGED target /\ Alive
     \/ /\ heap # "live"
        /\ heap' = heap
        /\ UNCHANGED stack
        /\ Terminate(134, "abort")
  /\ UNCHANGED << env, target_pid, target_function_addr, injection, buf, attempt,
                  status, orig_instr, simi, events, mem >>
  /\ NoDetach

\* injection.orig_code = NULL; }
Cl_Null ==
  /\ At("cl_null")
  /\ injection' = [injection EXCEPT !.orig_code = "NULL"]
  /\ Goto("cl_clear")
  /\ UNCHANGED << env, target_pid, target_function_addr, heap, buf, attempt, status,
                  orig_instr, simi, events, target, mem, hist >>
  /\ NoDetach /\ Alive

\* Cl_Clear with a restore that writes back a 4-byte int of the saved copy
Cl_ClearShortRestore ==
  /\ At("cl_clear")
  /\ injection' = [injection EXCEPT !.active = 0]
  /\ mem' = [mem EXCEPT ![injection.addr] = SubSeq(buf, 1, 4) \o << 0, 0, 0, 0 >>]
  /\ Note("removed", TRUE)
  /\ Goto(Top.ret)
  /\ UNCHANGED << env, target_pid, target_function_addr, heap, buf, attempt, status,
                  orig_instr, simi, events, target >>
  /\ NoDetach /\ Alive

\* Cl_Clear that returns without clearing the flag
Cl_ClearKeepsArmed ==
  /\ At("cl_clear")
  /\ injection' = injection
  /\ Note("removed", TRUE)
  /\ Goto(Top.ret)
  /\ UNCHANGED << env, target_pid, target_function_addr, heap, buf, attempt, status,
                  orig_instr, simi, events, target, mem >>
  /\ NoDetach /\ Alive

\* injection.active = 0; ... return 0;
Cl_Clear ==
  /\ At("cl_clear")
  /\ injection' = [injection EXCEPT !.active = 0]
  /\ Note("removed", TRUE)
  /\ Goto(Top.ret)
  /\ UNCHANGED << env, target_pid, target_function_addr, heap, buf, attempt, status,
                  orig_instr, simi, events, target, mem >>
  /\ NoDetach /\ Alive

\* ----------------------------------------------------------- signal_handler
\* SIGINT or SIGTERM arrives and signal_handler starts on top of whatever
\* runs. A handler set with signal() blocks only its own signal while it
\* runs, so the other signal can still interrupt it: at most one handler
\* frame per signal. The handler uses sig only to print it. It never
\* returns, so its reads up to its first write are taken with the arrival:
\*   if (target_pid > 0) { cleanup_injection(target_pid); ...
Deliver(sig) ==
  /\ exitVia = "none"
  /\ hist.handlers
  /\ Len(stack) <= Cardinality(Signals)
  /\ stack' = Append(stack,
       [pc |-> IF target_pid > 0 THEN cleanup_entry("h_detach") ELSE "h_exit",
        ret |-> "h_detach"])
  /\ hist' = [hist EXCEPT !.signalled = TRUE,
                          !.uaf = @ \/ (target_pid > 0 /\ ReadsFreed)]
  /\ UNCHANGED << env, tracerData, target, mem >> /\ NoDetach /\ Alive

\* ... ptrace(PTRACE_DETACH, target_pid, 0, 0); }
H_Detach ==
  /\ At("h_detach") /\ ~InMain
  /\ IssueDetach("handler")
  /\ Goto("h_exit")
  /\ UNCHANGED << env, tracerData, mem, hist >> /\ Alive

\* exit(0);
H_Exit ==
  /\ At("h_exit") /\ ~InMain
  /\ Terminate(0, "handler")
  /\ UNCHANGED << env, stack, tracerData, mem, hist >> /\ NoDetach

\* --------------------------------------------------------------- the target
\* a running tracee takes the pending SIGSTOP: signal-delivery-stop
Target_TakeStop ==
  /\ exitVia = "none"
  /\ target.st = "running" /\ target.traced /\ target.sigstop
  /\ target' = [target EXCEPT !.st = "stopped", !.report = TRUE, !.sigstop = FALSE]
  /\ UNCHANGED << env, stack, tracerData, mem, hist >> /\ NoDetach /\ Alive

\* a running tracee stops for another reason (another signal, an exec or
\* clone event asked for by PTRACE_SETOPTIONS)
Target_OtherStop ==
  /\ exitVia = "none"
  /\ target.st = "running" /\ target.traced
  /\ target' = [target EXCEPT !.st = "stopped", !.report = TRUE]
  /\ UNCHANGED << env, stack, tracerData, mem, hist >> /\ NoDetach /\ Alive

\* the dynamic loader maps libmylib.so
Target_Load ==
  /\ exitVia = "none"
  /\ target.st = "running" /\ env.loads /\ ~target.loaded
  /\ target' = [target EXCEPT !.loaded = TRUE]
  /\ UNCHANGED << env, stack, tracerData, mem, hist >> /\ NoDetach /\ Alive

\* the target calls my_traced_function(i, ...) while the tracer has it
\* resumed with the injection in place (calls made earlier are not counted)
Target_Call ==
  /\ exitVia = "none"
  /\ hist.resumed
  /\ target.st = "running" /\ target.loaded /\ target.calls < MaxCalls
  /\ target' = [target EXCEPT !.calls = @ + 1]
  /\ UNCHANGED << env, stack, tracerData, mem, hist >> /\ NoDetach /\ Alive

\* the target returns from main
Target_Exit ==
  /\ exitVia = "none"
  /\ target.st = "running"
  /\ target' = [target EXCEPT !.st = "zombie", !.how = "exited", !.report = TRUE,
                              !.sigstop = FALSE]
  /\ UNCHANGED << env, stack, tracerData, mem, hist >> /\ NoDetach /\ Alive

\* the target is killed by a signal (SIGKILL reaches a stopped tracee too)
Target_Killed ==
  /\ exitVia = "none"
  /\ target.st \in {"running", "stopped"}
  /\ target' = [target EXCEPT !.st = "zombie", !.how = "signaled", !.report = TRUE,
                              !.sigstop = FALSE]
  /\ UNCHANGED << env, stack, tracerData, mem, hist >> /\ NoDetach /\ Alive

\* ------------------------------------------------------------ specification
MainStep ==
  \/ Main_Start \/ Main_InstallHandlers \/ Main_ParseArg
  \/ Main_Attach \/ Main_AttachWait \/ Main_Fork \/ Main_SpawnWait
  \/ Main_SetOptions \/ Main_Cont0
  \/ Main_Kill \/ Main_Wait \/ Main_Find \/ Main_Cont
  \/ Main_Kill2 \/ Main_Wait2 \/ Main_Find2 \/ Main_ResolveFailDetach
  \/ Inject_Peek \/ Inject_SaveAddr \/ Inject_Malloc \/ Inject_Memcpy
  \/ Inject_Activate \/ Main_InjectFailDetach
  \/ Main_ContFinal \/ Main_ContFailDetach
  \/ Sim_Entry \/ Sim_Exit
  \/ Main_FinalWait \/ Main_FinalDetach \/ Main_Return1 \/ Main_Return0

CleanupStep == Cl_Free \/ Cl_Null \/ Cl_Clear

HandlerStep == H_Detach \/ H_Exit

TargetStep ==
  \/ Child_Exec \/ Target_TakeStop \/ Target_OtherStop \/ Target_Load
  \/ Target_Call \/ Target_Exit \/ Target_Killed

Next ==
  \/ MainStep \/ CleanupStep \/ HandlerStep
  \/ \E sig \in Signals : Deliver(sig)
  \/ TargetStep

Spec == Init /\ [][Next]_vars

\* the specification without operator interrupts, with the scheduling the
\* tracer relies on: its own statements run on, a forked child runs, and
\* the kernel stops a running tracee that has a SIGSTOP pending
QuietNext == MainStep \/ CleanupStep \/ TargetStep

QuietSpec ==
  /\ Init
  /\ [][QuietNext]_vars
  /\ WF_vars(MainStep \/ CleanupStep)
  /\ WF_vars(Child_Exec)
  /\ WF_vars(Target_TakeStop)

\* ------------------------------------------------------------------ claims
LowByte(w) == w[1]

Terminated == exitVia # "none"

\* the events of one kind, in order
OfKind(evs, k) == SelectSeq(evs, LAMBDA e : e.kind = k)

\* the first argument of the k-th call the target makes:
\* my_traced_function(i, ...) for i = 0, 1, ...   (test_ptrace_demo.c)
TargetArg1(k) == k - 1

\* C1: in every session in which attach or spawn succeeded, the tracer has
\* issued PTRACE_DETACH exactly once when it terminates, on every exit path.
C1_DetachExactlyOnce ==
  (Terminated /\ hist.attached) => detachCalls = 1

\* C2: an interrupt delivered once target_pid is recorded leads to: the
\* injection made inactive, then PTRACE_DETACH by the handler, then exit(0)
\* by the handler.
C2_InterruptOrder ==
  (Terminated /\ hist.signalled /\ target_pid > 0) =>
     /\ exitVia = "handler"
     /\ injection.active = 0
     /\ \E k \in 1..Len(detachLog) :
          detachLog[k].by = "handler" /\ detachLog[k].active = 0

C4_RoundTrip ==
  (hist.installed /\ hist.removed) =>
     /\ mem[injection.addr] = orig_instr
     /\ mem[injection.addr] = InitialMem(env)[injection.addr]

\* C4 witness: install then remove have both completed
C4_Witness ==
  hist.installed /\ hist.removed /\ injection.active = 0 /\ Len(orig_instr) = SavedCodeSize

\* C5: when the tracer has detached in the handler and when it has exited
\* through it, after an install, the target's byte at the address is the
\* byte captured at install time.
C5_InterruptLeavesOriginal ==
  (hist.installed /\ hist.signalled /\ (Terminated \/ Top.pc = "h_exit")) =>
     LowByte(mem[injection.addr]) = LowByte(orig_instr)

\* C5 witness: an armed injection was cleaned up by the handler, which exited
C5_Witness ==
  exitVia = "handler" /\ hist.installed /\ hist.removed /\ hist.resumed

\* C6: at the end of a session the Entry events are as many as the calls
\* the target made, each paired with one Exit, and the k-th Entry carries
\* the first argument of the k-th call.
C6_EventsMatchCalls ==
  (exitVia = "main" /\ exitCode = 0) =>
     /\ Len(OfKind(events, "entry")) = target.calls
     /\ Len(OfKind(events, "exit")) = target.calls
     /\ \A k \in 1..target.calls :
          OfKind(events, "entry")[k].args[1] = TargetArg1(k)

\* what the tracer reports when the module is never found: main fails at
\* "Could not find my_traced_function" with status 1 after the whole budget
ModuleNotFound ==
  /\ exitVia = "main" /\ exitCode = 1
  /\ hist.failure = "resolve"
  /\ hist.lookups = PollAttempts + 1

\* C7: when the target never loads the module, resolution (begun once the
\* attach or spawn wait has returned) ends in ModuleNotFound after 10 polls
\* and one last attempt, whatever the target does; waitpid never hangs.
C7_ResolveTerminates ==
  (~env.loads /\ Top.pc = "setopts") ~> ModuleNotFound

\* C7 witness: the budget was used up against a target that was alive and
\* stopped at the last look
C7_Witness ==
  ModuleNotFound /\ env.alive /\ ~env.loads /\ status = "stopped"

\* C8: a failed attach leaves the session state as it was before.
C8_FailedAttachLeavesState ==
  hist.failure = "attach" =>
     /\ target_pid = 0
     /\ injection = NoInjection
     /\ detachCalls = 0

\* C9: after an attach, resolution or patch failure the tracer terminates
\* with a non-zero status, detached if it was attached; and a session ends
\* with status 0 only without such a failure and after a detach.
C9_FailuresFatal ==
  Terminated =>
     /\ hist.failure \in {"attach", "resolve", "patch"} =>
          (exitCode # 0 /\ (hist.attached => detachCalls >= 1))
     /\ (exitCode = 0 /\ target_pid > 0) =>
          (hist.failure = "none" /\ detachCalls >= 1)

\* C10: when the spawn did not leave the child stopped after exec, the
\* engine issues no ptrace option, resume, stop or maps read against it.
C10_SpawnChecked ==
  (env.mode = "spawn" /\ ~hist.attached) =>
     hist.ops \cap {"setoptions", "cont", "kill", "maps", "peek"} = {}

\* C11: whenever resolution yields an address, it is the module's base (the
\* lowest address at which libmylib.so is mapped in the target) plus the
\* symbol's offset from the object's load base, for every mapping layout.
C11_ResolvedAddress ==
  target_function_addr # 0 => target_function_addr = TrueFunctionAddr(env)

\* waitpid reported that the target is gone
SawTermination == status \in {"exited", "signaled"}

\* C12: once the target was resumed with the injection in place, main goes
\* on to its final cleanup and detach only after a wait that reported the
\* target Exited or Killed; a stop keeps it waiting.
C12_UnwindOnlyOnTermination ==
  (hist.resumed /\ stack[1].pc \in {"final_detach", "return0"}) => SawTermination

\* C13: once a wait of the polling loop has reported a successfully spawned
\* target gone, main starts no further poll: it never stands at the kill of
\* a later poll, which it reaches only by looking the symbol up and resuming
\* (PTRACE_CONT) after that report.
C13_ExitEndsPolling ==
  (env.mode = "spawn" /\ hist.attached /\ SawTermination /\ attempt >= 1) =>
     stack[1].pc \notin {"kill", "kill2"}

\* C14: a lookup that finds the module in the target's maps but cannot
\* resolve the symbol ends resolution: it is not made a second time.
C14_SymbolFailureNotRetried ==
  hist.symfail # "again"

\* the target has terminated
TargetGone == target.st \in {"zombie", "reaped"}

\* C15: when the target has Exited or been Killed after the install, main
\* ends the session as after a normal run: the injection removed, then
\* PTRACE_DETACH, then status 0.
C15_TerminationIsNormal ==
  (exitVia = "main" /\ hist.installed /\ TargetGone) =>
     /\ exitCode = 0
     /\ injection.active = 0
     /\ \E k \in 1..Len(detachLog) : detachLog[k].active = 0

\* C16: the events emitted alternate Entry, Exit, starting with Entry (so
\* in every prefix #Exit <= #Entry <= #Exit + 1), an Entry carries
\* arguments and an Exit carries none.
C16_EventsAlternate ==
  \A k \in 1..Len(events) :
     /\ events[k].kind = (IF k % 2 = 1 THEN "entry" ELSE "exit")
     /\ (events[k].kind = "exit") <=> (events[k].args = << >>)

\* C16 witness: a complete pair followed by an Entry whose Exit is to come
C16_Witness ==
  /\ Len(events) >= 3 /\ Len(events) % 2 = 1
  /\ events[Len(events)].kind = "entry"

CleanupCalled ==
  \/ Len(stack') > Len(stack) /\ target_pid > 0
  \/ Len(stack') = Len(stack) /\ Top.ret = "none" /\ stack'[Len(stack')].ret # "none"

\* C19: cleanup_injection called while the injection is not armed (removed
\* or never installed) returns at once and changes neither the record, nor
\* the saved copy, nor the target's memory.
C19_RemoveIdempotent ==
  [][ (CleanupCalled /\ injection.active = 0) =>
        /\ UNCHANGED << injection, heap, buf, mem >>
        /\ stack'[Len(stack')].pc = stack'[Len(stack')].ret ]_vars

\* C19 witness: the handler has called cleanup_injection after main's own
\* cleanup_injection had returned, and is back from it with nothing freed
\* a second time
C19_Witness ==
  /\ Len(stack) > 1 /\ stack[1].pc = "final_detach"
  /\ Top.pc = "h_detach" /\ detachCalls = 0
  /\ hist.removed /\ hist.frees = 1 /\ injection.active = 0

\* C20: in every state in which the injection is armed the tracer holds the
\* saved copy of the original word, equal to the word read at install time.
C20_OriginalNeverLost ==
  injection.active = 1 => (heap = "live" /\ buf = orig_instr)

\* main is about to read the target: its maps (find_symbol_address) or its
\* text (PTRACE_PEEKTEXT), or is between the successful check and the end
\* of the install
ReadingTarget ==
  /\ exitVia = "none" /\ InMain
  /\ Top.pc \in {"find", "find2", "peek", "save_addr", "malloc", "memcpy", "activate"}

\* the target is a live process
TargetLive == target.st \in {"forked", "running", "stopped"}

AboutToDetach ==
  /\ exitVia = "none"
  /\ Top.pc \in {"h_detach", "resolve_detach", "inject_detach", "contfail_detach",
                 "final_detach"}

\* C22: whenever the tracer is about to issue PTRACE_DETACH on a live
\* target it is tracing, the target is in a ptrace-stop, so that the detach
\* takes effect.
C22_DetachTakesEffect ==
  (AboutToDetach /\ TargetLive /\ target.traced) => PtraceOk(target)

\* C23: the saved copy is freed at most once and never read after it was
\* freed, under every interleaving of the handler with main.
C23_FreedOnce ==
  hist.frees <= 1 /\ ~hist.uaf

\* C24: events are emitted only after attach or spawn, resolution and
\* install have succeeded and the target was resumed; after any failure
\* the event stream is empty.
C24_EventsOnlyAfterSetup ==
  /\ events # << >> =>
        (hist.attached /\ target_function_addr # 0 /\ hist.installed /\ hist.resumed)
  /\ hist.failure # "none" => events = << >>

\* C24 witness: a session that ran to its end and emitted all its events
C24_Witness ==
  exitVia = "main" /\ exitCode = 0 /\ Len(events) = 2 * SimulatedCalls

\* =================================================== the eBPF collector
\* #define MAX_EVENTS 1000000 (scaled down, so that the buffer fills up)
MAX_EVENTS == 2

\* number of times the probes are hit in a run
MaxProbeHits == 4

\* errno of an interrupted system call (err == -EINTR)
EINTR == 4

\* errno values of a failing libbpf call or poll (ENOENT, EACCES)
Errnos == {2, 13}

\* widths in bytes of the fields of the packed event structs: as the
\* collector declares them, and as the probes declare them
UserEntryFields == << 8, 4, 8, 8, 8, 4 >>

UserExitFields == << 8, 4 >>

BpfEntryFields == << 8, 4, 8, 8, 4 >>

BpfExitFields == << 8, 4 >>

\* sizeof of a packed struct
RECURSIVE Sizeof(_)
Sizeof(fields) == IF fields = << >> THEN 0 ELSE Head(fields) + Sizeof(Tail(fields))

\* what main holds and releases at cleanup
Resources == {"rb", "link_entry", "link_exit", "skel", "event_buffer", "event_sizes"}

\* argc (1: no file, 2: a file, 3: too many), EBPF_TRACE_WRITE_FILE=1 set or
\* not, libmylib.so present at one of the known places or not
CollectorInputs == [argc : 1..3, envWrite : BOOLEAN, lib : BOOLEAN]

\* calloc'ed memory
ZeroSlot == [probe |-> "zero", ts |-> 0, size |-> 0]

InitialCollector(in) ==
  [pc |-> "start", in |-> in,
   should_write_file |-> FALSE, output_file |-> "NULL",
   event_buffer |-> "NULL", event_sizes |-> "NULL",
   slots |-> [i \in 0..(MAX_EVENTS - 1) |-> ZeroSlot],
   sizes |-> [i \in 0..(MAX_EVENTS - 1) |-> 0],
   exiting |-> 0, event_count |-> 0, events_dropped |-> 0,
   skel |-> "NULL", link_entry |-> "NULL", link_exit |-> "NULL", rb |-> "NULL",
   err |-> 0, ring |-> << >>, clock |-> 0, interrupted |-> FALSE,
   delivered |-> << >>, lines |-> << >>, wrote |-> FALSE,
   acquired |-> {}, released |-> [r \in Resources |-> 0],
   handlers |-> FALSE, allocated |-> FALSE, failure |-> "none", stop |-> "none",
   exitStatus |-> -1]

\* the ptrace tracer is not part of a run of the collector or the wrapper
PtraceNotRunning ==
  /\ env = [mode |-> "usage", alive |-> FALSE, loads |-> FALSE, dlOk |-> FALSE,
            layout |-> MapsNoLib, word |-> Filler]
  /\ stack = << MainFrame("off") >>
  /\ target_pid = 0
  /\ target_function_addr = 0
  /\ injection = NoInjection
  /\ heap = "none"
  /\ buf = << >>
  /\ attempt = 0
  /\ status = "unset"
  /\ orig_instr = << >>
  /\ simi = 0
  /\ events = << >>
  /\ target = InitialTarget(env)
  /\ mem = InitialMem(env)
  /\ detachCalls = 0
  /\ detachLog = << >>
  /\ exitCode = -1
  /\ exitVia = "none"
  /\ hist = InitialHist

CollectorInit ==
  /\ PtraceNotRunning
  /\ wrapper = NotRunning
  /\ collector \in { InitialCollector(in) : in \in CollectorInputs }

\* a step of the collector
ColStep(c) == collector' = c /\ UNCHANGED << ptraceVars, wrapper >>

ColAt(l) == collector.pc = l

\* handle_event with the full-buffer test off by one (event_count > MAX_EVENTS)
handle_event_off_by_one(c, data) ==
  IF c.event_count > MAX_EVENTS
  THEN [c EXCEPT !.events_dropped = @ + 1, !.delivered = Append(@, data)]
  ELSE [c EXCEPT !.slots = [i \in DOMAIN @ |-> IF i = c.event_count THEN data ELSE @[i]],
                 !.sizes = [i \in DOMAIN @ |-> IF i = c.event_count THEN data.size ELSE @[i]],
                 !.event_count = @ + 1,
                 !.delivered = Append(@, data)]

\* handle_event(ctx, data, data_sz): if (event_count >= MAX_EVENTS) {
\*   events_dropped++; return 0; }  memcpy(&event_buffer[event_count], data,
\*   data_sz); event_sizes[event_count] = data_sz; event_count++;
handle_event(c, data) ==
  IF c.event_count >= MAX_EVENTS
  THEN [c EXCEPT !.events_dropped = @ + 1, !.delivered = Append(@, data)]
  ELSE [c EXCEPT !.slots = [i \in DOMAIN @ |-> IF i = c.event_count THEN data ELSE @[i]],
                 !.sizes = [i \in DOMAIN @ |-> IF i = c.event_count THEN data.size ELSE @[i]],
                 !.event_count = @ + 1,
                 !.delivered = Append(@, data)]

\* ring_buffer__poll calls handle_event on every record that is pending
RECURSIVE Consume(_, _)
Consume(c, ring) ==
  IF ring = << >> THEN c ELSE Consume(handle_event(c, Head(ring)), Tail(ring))

\* write_events_to_file: for (i = 0; i < event_count; i++)
\*   if (event_sizes[i] == sizeof(struct trace_event_entry)) entry line
\*   else if (event_sizes[i] == sizeof(struct trace_event_exit)) exit line
RECURSIVE WriteLines(_, _)
WriteLines(c, i) ==
  IF i >= c.event_count THEN << >>
  ELSE (IF c.sizes[i] = Sizeof(UserEntryFields)
        THEN << [line |-> "entry", ts |-> c.slots[i].ts] >>
        ELSE IF c.sizes[i] = Sizeof(UserExitFields)
        THEN << [line |-> "exit", ts |-> c.slots[i].ts] >>
        ELSE << >>) \o WriteLines(c, i + 1)

\* return err < 0 ? -err : 0;
ExitStatusOf(err) == IF err < 0 THEN -err ELSE 0

\* ------------------------------------------------ main of the collector
\* argc and EBPF_TRACE_WRITE_FILE, then find_library()
Col_Start ==
  /\ ColAt("start")
  /\ LET in == collector.in
         fromEnv == in.envWrite
         write == IF in.argc = 2 THEN TRUE ELSE fromEnv
         file == IF in.argc = 2 THEN "argv1" ELSE IF write THEN "default" ELSE "NULL"
     IN IF in.argc > 2
        THEN ColStep([collector EXCEPT !.pc = "done", !.should_write_file = fromEnv,
                                       !.exitStatus = 1])
        ELSE IF ~in.lib
        THEN ColStep([collector EXCEPT !.pc = "done", !.should_write_file = write,
                                       !.output_file = file, !.exitStatus = 1])
        ELSE ColStep([collector EXCEPT !.pc = "calloc", !.should_write_file = write,
                                       !.output_file = file])

\* event_buffer = calloc(...); event_sizes = calloc(...);
\* if (!event_buffer || !event_sizes) return 1;
Col_Alloc ==
  /\ ColAt("calloc")
  /\ \E b \in {"NULL", "held"}, z \in {"NULL", "held"} :
       LET got == (IF b = "held" THEN {"event_buffer"} ELSE {})
                  \cup (IF z = "held" THEN {"event_sizes"} ELSE {})
           c == [collector EXCEPT !.event_buffer = b, !.event_sizes = z,
                                  !.acquired = @ \cup got]
       IN IF b = "NULL" \/ z = "NULL"
          THEN ColStep([c EXCEPT !.pc = "done", !.exitStatus = 1])
          ELSE ColStep([c EXCEPT !.pc = "signal", !.allocated = TRUE])

\* signal(SIGINT, sig_handler); signal(SIGTERM, sig_handler);
Col_InstallHandlers ==
  /\ ColAt("signal")
  /\ ColStep([collector EXCEPT !.pc = "open", !.handlers = TRUE])

\* a setup step that failed: err is set and control goes to cleanup
ColFail(c, step, e) == [c EXCEPT !.pc = "cleanup", !.err = e, !.failure = step]

\* skel = mylib_tracer_bpf__open(); if (!skel) return, without the cleanup
Col_OpenFailReturns ==
  /\ ColAt("open")
  /\ \/ ColStep([collector EXCEPT !.pc = "load", !.skel = "held",
                                  !.acquired = @ \cup {"skel"}])
     \/ ColStep([collector EXCEPT !.pc = "done", !.err = -1, !.failure = "open",
                                  !.exitStatus = 1])

\* skel = mylib_tracer_bpf__open(); if (!skel) { err = -1; goto cleanup; }
Col_Open ==
  /\ ColAt("open")
  /\ \/ ColStep([collector EXCEPT !.pc = "load", !.skel = "held",
                                  !.acquired = @ \cup {"skel"}])
     \/ ColStep(ColFail(collector, "open", -1))

\* err = mylib_tracer_bpf__load(skel); if (err) goto cleanup;
Col_Load ==
  /\ ColAt("load")
  /\ \/ ColStep([collector EXCEPT !.pc = "offset", !.err = 0])
     \/ \E e \in Errnos : ColStep(ColFail(collector, "load", -e))

\* func_offset = get_function_offset(...); if (func_offset < 0) { err = -1; ... }
Col_Offset ==
  /\ ColAt("offset")
  /\ \/ ColStep([collector EXCEPT !.pc = "attach_entry"])
     \/ ColStep(ColFail(collector, "offset", -1))

\* link_entry = bpf_program__attach_uprobe(...); if (!link_entry) err = -errno
Col_AttachEntry ==
  /\ ColAt("attach_entry")
  /\ \/ ColStep([collector EXCEPT !.pc = "attach_exit", !.link_entry = "held",
                                  !.acquired = @ \cup {"link_entry"}])
     \/ \E e \in Errnos : ColStep(ColFail(collector, "attach_entry", -e))

\* link_exit = bpf_program__attach_uprobe(...); if (!link_exit) err = -errno
Col_AttachExit ==
  /\ ColAt("attach_exit")
  /\ \/ ColStep([collector EXCEPT !.pc = "rb_new", !.link_exit = "held",
                                  !.acquired = @ \cup {"link_exit"}])
     \/ \E e \in Errnos : ColStep(ColFail(collector, "attach_exit", -e))

\* rb = ring_buffer__new(...); if (!rb) { err = -1; goto cleanup; }
Col_RingNew ==
  /\ ColAt("rb_new")
  /\ \/ ColStep([collector EXCEPT !.pc = "loop", !.rb = "held",
                                  !.acquired = @ \cup {"rb"}])
     \/ ColStep(ColFail(collector, "rb_new", -1))

\* while (!exiting)
Col_LoopTest ==
  /\ ColAt("loop")
  /\ IF collector.exiting = 1
     THEN ColStep([collector EXCEPT !.pc = "after_loop", !.stop = "signal"])
     ELSE ColStep([collector EXCEPT !.pc = "poll", !.interrupted = FALSE])

\* err = ring_buffer__poll(rb, 100); if (err == -EINTR) { err = 0; break; }
\* if (err < 0) break;
Col_Poll ==
  /\ ColAt("poll")
  /\ \/ LET c == Consume(collector, collector.ring)
        IN ColStep([c EXCEPT !.pc = "loop", !.ring = << >>,
                             !.err = Len(collector.ring), !.interrupted = FALSE])
     \/ /\ collector.interrupted
        /\ LET err == -EINTR
           IN ColStep([collector EXCEPT !.pc = "after_loop",
                                        !.err = IF err = -EINTR THEN 0 ELSE err,
                                        !.stop = "signal", !.interrupted = FALSE])
     \/ \E e \in Errnos :
          ColStep([collector EXCEPT !.pc = "after_loop", !.err = -e,
                                    !.stop = "pollerr", !.interrupted = FALSE])

\* if (should_write_file && event_count > 0 && output_file)
\*   write_events_to_file(output_file);   (fopen may fail: nothing is written)
Col_Write ==
  /\ ColAt("after_loop")
  /\ IF collector.should_write_file /\ collector.event_count > 0
        /\ collector.output_file # "NULL"
     THEN \/ ColStep([collector EXCEPT !.pc = "cleanup", !.wrote = TRUE,
                                       !.lines = WriteLines(collector, 0)])
          \/ ColStep([collector EXCEPT !.pc = "cleanup"])
     ELSE ColStep([collector EXCEPT !.pc = "cleanup"])

\* cleanup: each of rb, link_entry, link_exit, skel, event_buffer, event_sizes
\* is released if it is not NULL; return err < 0 ? -err : 0;
Col_Cleanup ==
  /\ ColAt("cleanup")
  /\ ColStep([collector EXCEPT
                !.pc = "done",
                !.released = [r \in Resources |->
                                IF collector[r] # "NULL" THEN @[r] + 1 ELSE @[r]],
                !.exitStatus = ExitStatusOf(collector.err)])

\* SIGINT or SIGTERM: sig_handler sets exiting; before signal() was called
\* the default action ends the process
Col_Signal ==
  /\ collector.pc \notin {"off", "done", "killed"}
  /\ IF collector.handlers
     THEN ColStep([collector EXCEPT !.exiting = 1,
                                    !.interrupted = (@ \/ collector.pc = "poll")])
     ELSE ColStep([collector EXCEPT !.pc = "killed"])

\* ---------------------------------------------------- the two probes
\* a record of the kernel ring buffer
Record(probe, c, fields) == [probe |-> probe, ts |-> c.clock + 1, size |-> Sizeof(fields)]

\* uprobe: bpf_ringbuf_reserve(&events, sizeof(*event), 0); if (!event)
\* return 0; ... bpf_ringbuf_submit(event, 0);
Probe_Entry ==
  /\ collector.link_entry = "held"
  /\ collector.released["link_entry"] = 0
  /\ collector.clock < MaxProbeHits
  /\ \/ ColStep([collector EXCEPT !.clock = @ + 1,
                   !.ring = Append(@, Record("entry", collector, BpfEntryFields))])
     \/ ColStep([collector EXCEPT !.clock = @ + 1])

\* uretprobe: the same with the exit event
Probe_Exit ==
  /\ collector.link_exit = "held"
  /\ collector.released["link_exit"] = 0
  /\ collector.clock < MaxProbeHits
  /\ \/ ColStep([collector EXCEPT !.clock = @ + 1,
                   !.ring = Append(@, Record("exit", collector, BpfExitFields))])
     \/ ColStep([collector EXCEPT !.clock = @ + 1])

ColMain ==
  \/ Col_Start \/ Col_Alloc \/ Col_InstallHandlers \/ Col_Open \/ Col_Load
  \/ Col_Offset \/ Col_AttachEntry \/ Col_AttachExit \/ Col_RingNew
  \/ Col_LoopTest \/ Col_Poll \/ Col_Write \/ Col_Cleanup

CollectorNext ==
  \/ Col_Start
  \/ Col_Alloc
  \/ Col_InstallHandlers
  \/ Col_Open
  \/ Col_Load
  \/ Col_Offset
  \/ Col_AttachEntry
  \/ Col_AttachExit
  \/ Col_RingNew
  \/ Col_LoopTest
  \/ Col_Poll
  \/ Col_Write
  \/ Col_Cleanup
  \/ Col_Signal
  \/ Probe_Entry
  \/ Probe_Exit

\* the process is scheduled: main keeps taking steps (ring_buffer__poll
\* returns after its 100 ms timeout at the latest)
CollectorSpec == CollectorInit /\ [][CollectorNext]_vars /\ WF_vars(ColMain)

\* ------------------------------------------------ claims on the collector
\* C25: after any sequence of handle_event calls event_count never exceeds
\* MAX_EVENTS, event_count + events_dropped is the number of events delivered,
\* an event is dropped only when the buffer is full, and the stored events are
\* the first delivered ones, in arrival order, none overwritten by a later one.
C25_BufferDiscipline ==
  /\ collector.event_count <= MAX_EVENTS
  /\ collector.event_count + collector.events_dropped = Len(collector.delivered)
  /\ (collector.events_dropped > 0 => collector.event_count = MAX_EVENTS)
  /\ \A i \in 0..(collector.event_count - 1) :
       /\ collector.slots[i] = collector.delivered[i + 1]
       /\ collector.sizes[i] = collector.delivered[i + 1].size

\* the buffer is full and events that came later were dropped
C25_Witness ==
  /\ collector.event_count = MAX_EVENTS
  /\ collector.events_dropped > 0
  /\ Len(collector.delivered) > MAX_EVENTS

\* C26: every buffered event is written to the trace file as exactly one line
\* of the kind of the probe that produced it, so the number of lines written
\* is event_count.
C26_OneLinePerEvent ==
  (collector.pc = "done" /\ collector.wrote) =>
     /\ Len(collector.lines) = collector.event_count
     /\ \A i \in 0..(collector.event_count - 1) :
          /\ i + 1 <= Len(collector.lines)
          /\ collector.lines[i + 1].line = collector.slots[i].probe
          /\ collector.lines[i + 1].ts = collector.slots[i].ts

\* the resources of the collector that were acquired are released once, the
\* others never
ReleasedExactlyOnce ==
  \A r \in Resources :
    collector.released[r] = (IF r \in collector.acquired THEN 1 ELSE 0)

\* main returned after the buffers were allocated
ReturnedAfterAlloc == collector.pc = "done" /\ collector.allocated

\* C27: once SIGINT or SIGTERM was received the poll loop ends and main
\* returns; on every path out of main after the buffers were allocated each
\* acquired resource is released exactly once; the exit status is 0 on a
\* signal-driven stop and non-zero on a setup failure.
C27_StopsAndReleases ==
  /\ [](ReturnedAfterAlloc =>
          /\ ReleasedExactlyOnce
          /\ (collector.stop = "signal" => collector.exitStatus = 0)
          /\ (collector.failure # "none" => collector.exitStatus > 0))
  /\ ((collector.exiting = 1) ~> (collector.pc = "done"))

\* a signal interrupted the poll of a fully set up collector, which returned 0
\* with everything released
C27_Witness ==
  /\ ReturnedAfterAlloc
  /\ collector.stop = "signal"
  /\ collector.exiting = 1
  /\ collector.acquired = Resources
  /\ ReleasedExactlyOnce
  /\ collector.exitStatus = 0
  /\ collector.event_count > 0

\* ================================================ the LD_PRELOAD wrapper
\* calls of my_traced_function the application makes in a run
MaxWrapperCalls == 2

\* lib_paths[]: the six places the original library is looked for
LibPaths == 1..6

\* what the dynamic linker can resolve: the two symbols after the wrapper in
\* the search order (RTLD_NEXT), the paths that dlopen can load, and the two
\* symbols in the library loaded from there
WrapperInputs ==
  [nextFn : BOOLEAN, nextSet : BOOLEAN, loadable : {{}, {1}, {3, 6}},
   handleFn : BOOLEAN, handleSet : BOOLEAN]

\* arguments (arg1, arg2, arg3, arg4) of a call
CallArgs == [arg1 : {0, 42}, arg2 : {7}, arg3 : {1, 2}, arg4 : {0, 9}]

InitialWrapper(in) ==
  [pc |-> "ctor", in |-> in,
   real_my_traced_function |-> "NULL", real_set_simulated_work_duration |-> "NULL",
   cur |-> << >>, requests |-> << >>, log |-> << >>, work |-> 0, exitStatus |-> -1]

WrapperInit ==
  /\ PtraceNotRunning
  /\ collector = NotRunning
  /\ wrapper \in { InitialWrapper(in) : in \in WrapperInputs }

\* a step of the process the wrapper is loaded in
WStep(w) == wrapper' = w /\ UNCHANGED << ptraceVars, collector >>

WAt(l) == wrapper.pc = l

\* dlsym: the address of the symbol, or NULL
Dlsym(found) == IF found THEN "real" ELSE "NULL"

\* for (i = 0; lib_paths[i] != NULL && !handle; i++) dlopen(lib_paths[i]):
\* the first path that loads, 0 for none
FirstHandle(loadable) ==
  IF loadable \cap LibPaths = {} THEN 0
  ELSE CHOOSE i \in loadable \cap LibPaths : \A j \in loadable \cap LibPaths : i <= j

\* real_my_traced_function = dlsym(RTLD_NEXT, "my_traced_function");
W_ResolveNext ==
  /\ WAt("ctor")
  /\ WStep([wrapper EXCEPT !.pc = "fallback",
                           !.real_my_traced_function = Dlsym(wrapper.in.nextFn)])

\* if (!real_my_traced_function) { dlopen loop; if (handle) { dlsym; dlsym } }
\* else real_set_simulated_work_duration = dlsym(RTLD_NEXT, ...)
W_Fallback ==
  /\ WAt("fallback")
  /\ IF wrapper.real_my_traced_function = "NULL"
     THEN IF FirstHandle(wrapper.in.loadable) # 0
          THEN WStep([wrapper EXCEPT
                        !.pc = "check_fn",
                        !.real_my_traced_function = Dlsym(wrapper.in.handleFn),
                        !.real_set_simulated_work_duration = Dlsym(wrapper.in.handleSet)])
          ELSE WStep([wrapper EXCEPT !.pc = "check_fn"])
     ELSE WStep([wrapper EXCEPT
                   !.pc = "check_fn",
                   !.real_set_simulated_work_duration = Dlsym(wrapper.in.nextSet)])

\* the first check of the initialiser without its exit(1)
W_CheckFnNoExit ==
  /\ WAt("check_fn")
  /\ WStep([wrapper EXCEPT !.pc = "check_set"])

\* if (!real_my_traced_function) exit(1);
W_CheckFn ==
  /\ WAt("check_fn")
  /\ IF wrapper.real_my_traced_function = "NULL"
     THEN WStep([wrapper EXCEPT !.pc = "exited", !.exitStatus = 1])
     ELSE WStep([wrapper EXCEPT !.pc = "check_set"])

\* if (!real_set_simulated_work_duration) exit(1);
W_CheckSet ==
  /\ WAt("check_set")
  /\ IF wrapper.real_set_simulated_work_duration = "NULL"
     THEN WStep([wrapper EXCEPT !.pc = "exited", !.exitStatus = 1])
     ELSE WStep([wrapper EXCEPT !.pc = "ready"])

\* the application calls my_traced_function(arg1, arg2, arg3, arg4):
\* tracepoint(mylib, my_traced_function_entry, arg1, arg2, arg4);
W_Entry ==
  /\ WAt("ready")
  /\ Len(wrapper.requests) < MaxWrapperCalls
  /\ \E a \in CallArgs :
       WStep([wrapper EXCEPT
                !.pc = "w_call", !.cur = a, !.requests = Append(@, a),
                !.log = Append(@, [kind |-> "entry",
                                   args |-> << a.arg1, a.arg2, a.arg4 >>])])

\* real_my_traced_function(arg1, arg2, arg3, arg4);  a call through a NULL
\* pointer ends the process
W_CallReal ==
  /\ WAt("w_call")
  /\ IF wrapper.real_my_traced_function = "NULL"
     THEN WStep([wrapper EXCEPT !.pc = "crashed"])
     ELSE LET a == wrapper.cur
          IN WStep([wrapper EXCEPT
                      !.pc = "w_exit",
                      !.log = Append(@, [kind |-> "real",
                                         args |-> << a.arg1, a.arg2, a.arg3, a.arg4 >>])])

\* tracepoint(mylib, my_traced_function_exit);
W_Exit ==
  /\ WAt("w_exit")
  /\ WStep([wrapper EXCEPT !.pc = "ready", !.cur = << >>,
                           !.log = Append(@, [kind |-> "exit", args |-> << >>])])

\* set_simulated_work_duration(sleep_us): if (real_set_simulated_work_duration)
\*   real_set_simulated_work_duration(sleep_us);
W_SetDuration ==
  /\ WAt("ready")
  /\ \E us \in {0, 100} :
       /\ wrapper.work # us
       /\ IF wrapper.real_set_simulated_work_duration # "NULL"
          THEN WStep([wrapper EXCEPT !.work = us])
          ELSE WStep(wrapper)

WrapperNext ==
  \/ W_ResolveNext
  \/ W_Fallback
  \/ W_CheckFn
  \/ W_CheckSet
  \/ W_Entry
  \/ W_CallReal
  \/ W_Exit
  \/ W_SetDuration

\* the thread inside the wrapper keeps running: the real function returns
WrapperSpec ==
  WrapperInit /\ [][WrapperNext]_vars /\ WF_vars(W_CallReal \/ W_Exit)

\* what the k-th observation of a run has to be, given the calls made
ExpectedObservation(k) ==
  LET a == wrapper.requests[((k - 1) \div 3) + 1]
      phase == (k - 1) % 3
  IN IF phase = 0 THEN [kind |-> "entry", args |-> << a.arg1, a.arg2, a.arg4 >>]
     ELSE IF phase = 1
     THEN [kind |-> "real", args |-> << a.arg1, a.arg2, a.arg3, a.arg4 >>]
     ELSE [kind |-> "exit", args |-> << >>]

InWrapper == wrapper.pc \in {"w_call", "w_exit"}

\* C28: every call of my_traced_function emits the entry tracepoint, then
\* calls the real function exactly once with the same four arguments, then
\* emits the exit tracepoint; the real-function pointer is not NULL when the
\* wrapper runs, as the initialiser ends the process with status 1 when either
\* real function is not resolved.
C28_WrapperBrackets ==
  /\ [](/\ Len(wrapper.log) <= 3 * Len(wrapper.requests)
        /\ \A k \in 1..Len(wrapper.log) : wrapper.log[k] = ExpectedObservation(k)
        /\ (wrapper.pc = "ready" => Len(wrapper.log) = 3 * Len(wrapper.requests))
        /\ (wrapper.requests # << >> => wrapper.real_my_traced_function # "NULL")
        /\ (wrapper.pc \in {"ready", "w_call", "w_exit"} =>
              /\ wrapper.real_my_traced_function # "NULL"
              /\ wrapper.real_set_simulated_work_duration # "NULL")
        /\ (wrapper.pc = "exited" =>
              /\ wrapper.exitStatus = 1
              /\ wrapper.requests = << >>
              /\ (wrapper.real_my_traced_function = "NULL"
                  \/ wrapper.real_set_simulated_work_duration = "NULL")))
  /\ (InWrapper ~> (wrapper.pc = "ready" /\ Len(wrapper.log) = 3 * Len(wrapper.requests)))

\* two calls with different arguments went through the wrapper, which found
\* the real function by the explicit load
C28_Witness ==
  /\ wrapper.pc = "ready"
  /\ ~wrapper.in.nextFn
  /\ Len(wrapper.requests) = MaxWrapperCalls
  /\ wrapper.requests[1] # wrapper.requests[2]
  /\ Len(wrapper.log) = 3 * MaxWrapperCalls

====
